---- MODULE Spec2Model ----
(***************************************************************************)
(* Model of the loan-servicing assistant: the /ask endpoint (main.py), the *)
(* LangGraph orchestration graph chatbot <-> tools (graph.py), the domain  *)
(* tools and agents (tools.py) and the monitoring session calls            *)
(* (monitoring.py).                                                        *)
(*                                                                         *)
(* Texts are sequences of text fragments; a query is a sequence of single  *)
(* characters so that lower() and the substring test act on characters.    *)
(* Optional values (Python None or a value) are sets: {} is None, {v} is   *)
(* the value v.  Rates are integers in hundredths of a percentage point    *)
(* (7.25 is 725), money is in whole dollars.                               *)
(***************************************************************************)
EXTENDS Integers, Sequences, FiniteSets, TLC

(* ------------------------------ bounds -------------------------------- *)

\* Requests the server handles in one behaviour.
NumRequests == 2

\* Longest list of tool calls the model emits in one turn.
MaxCalls == 2

\* Tool calls of freely chosen kind the model emits in one run.
MaxVariedCalls == 2

\* Longest query, in fragments of QueryChunks.
MaxChunks == 2

(* --------------------------- optional values -------------------------- *)

None == {}

Some(v) == {v}

IsNone(x) == x = {}

Val(x) == CHOOSE v \in x : TRUE

\* Python truthiness of an Optional number: None and 0 are false.
Truthy(x) == x # {} /\ Val(x) # 0

(* -------------------------------- text -------------------------------- *)

\* str.lower() on the characters the queries are made of.
LowerChar(c) ==
    CASE c = "R" -> "r" [] c = "E" -> "e" [] c = "F" -> "f" [] c = "I" -> "i"
      [] c = "N" -> "n" [] c = "A" -> "a" [] c = "C" -> "c" [] c = "S" -> "s"
      [] c = "T" -> "t" [] c = "U" -> "u" [] OTHER -> c

Lower(s) == [i \in 1..Len(s) |-> LowerChar(s[i])]

\* Python's `sub in s` for strings.
Contains(s, sub) ==
    \E i \in 0..(Len(s) - Len(sub)) : SubSeq(s, i + 1, i + Len(sub)) = sub

KwRefinance == <<"r", "e", "f", "i", "n", "a", "n", "c", "e">>

KwRestructure == <<"r", "e", "s", "t", "r", "u", "c", "t", "u", "r", "e">>

\* f-string rendering of an override value.
Fmt(x) == IF IsNone(x) THEN "None" ELSE ToString(Val(x))

OverrideText(rate, score, income) ==
    << "\nPerform refinance analysis using DB values, but override with ",
       "user-provided values: rate=", Fmt(rate), ", score=", Fmt(score),
       ", income=", Fmt(income), ". ",
       "Use new offer column if present for better recommendation." >>

HasKeywordNoLower(query) ==
    Contains(query, KwRefinance) \/ Contains(query, KwRestructure)

HasKeyword(query) ==
    Contains(Lower(query), KwRefinance) \/ Contains(Lower(query), KwRestructure)

\* full_query of ask_question.
FullQuery(query, rate, score, income) ==
    IF HasKeyword(query)
    THEN query \o OverrideText(rate, score, income)
    ELSE query

(* ------------------------------ numbers ------------------------------- *)

RECURSIVE Gcd(_, _)
Gcd(a, b) == IF b = 0 THEN a ELSE Gcd(b, a % b)

Abs(x) == IF x < 0 THEN -x ELSE x

\* Exact rationals n/d in lowest terms with d > 0 stand for Python floats.
Rat(n, d) ==
    LET g == Gcd(Abs(n), Abs(d))
        s == IF d < 0 THEN -1 ELSE 1
    IN  [n |-> s * (n \div g), d |-> s * (d \div g)]

RMul(a, b) == Rat(a.n * b.n, a.d * b.d)

RSub(a, b) == Rat(a.n * b.d - b.n * a.d, a.d * b.d)

RDivInt(a, k) == Rat(a.n, a.d * k)

RMulInt(a, k) == Rat(a.n * k, a.d)

RGt(a, b) == a.n * b.d > b.n * a.d

RGe(a, b) == a.n * b.d >= b.n * a.d

RSign(a) == IF a.n > 0 THEN 1 ELSE IF a.n < 0 THEN -1 ELSE 0

\* A stored or supplied rate, given in hundredths of a percentage point.
Pct(h) == Rat(h, 100)

Dollars(x) == Rat(x, 1)

(* ------------------------------ database ------------------------------ *)

VARIABLES
    db            \* the external data source the tools read

\* dict.get(key, default) on a row: the default only when the column is absent.
Get(row, key, default) == IF key \in DOMAIN row THEN row[key] ELSE Some(default)

Err(msg) == [error |-> Some(msg), row |-> <<>>]

Row(r) == [error |-> None, row |-> r]

HasError(result) == result.error # None

\* LoanServicingAgent.get_account_details
get_account_details(user_id) ==
    IF ~db.engine THEN Err("Database not configured")
    ELSE IF ~db.up THEN Err("Database error")
    ELSE IF user_id \in DOMAIN db.accounts /\ db.accounts[user_id] # None
         THEN Row(Val(db.accounts[user_id]))
         ELSE Err("User not found")

\* LoanServicingAgent.get_loan_details
get_loan_details(user_id) ==
    IF ~db.engine THEN Err("Database not configured")
    ELSE IF ~db.up THEN Err("Database error")
    ELSE IF user_id \in DOMAIN db.loans /\ db.loans[user_id] # None
         THEN Row(Val(db.loans[user_id]))
         ELSE Err("Loan not found")

(* ---------------------------- domain tools ---------------------------- *)

\* What a tool function does: return a text or raise.
Returned(text) == [raised |-> FALSE, text |-> text]

Raised(exc) == [raised |-> TRUE, text |-> <<exc>>]

\* get_user_financial_info: the ',' format of annual_income raises on the
\* 'N/A' default (ValueError) and on a NULL column (TypeError).
get_user_financial_info(user_id) ==
    LET result == get_account_details(user_id) IN
    IF HasError(result)
    THEN Returned(<<"Error retrieving financial info: ", Val(result.error)>>)
    ELSE IF "annual_income" \notin DOMAIN result.row
    THEN Raised("ValueError")
    ELSE IF IsNone(result.row["annual_income"])
    THEN Raised("TypeError")
    ELSE Returned(<<"Financial Information for User ", user_id>>)

\* get_current_mortgage_rate
get_current_mortgage_rate == Returned(<<"Current Market Mortgage Rates">>)

\* get_user_account_detail
get_user_account_detail(user_id) ==
    LET result == get_account_details(user_id) IN
    IF HasError(result)
    THEN Returned(<<"Error retrieving account details: ", Val(result.error)>>)
    ELSE Returned(<<"Account Details for User ", user_id>>)

get_user_loan_detail_raising(user_id) ==
    LET result == get_loan_details(user_id) IN
    IF HasError(result)
    THEN Raised("KeyError")
    ELSE Returned(<<"Loan Details for User ", user_id>>)

\* get_user_loan_detail: the ',.2f' formats raise on a NULL amount.
get_user_loan_detail(user_id) ==
    LET result == get_loan_details(user_id) IN
    IF HasError(result)
    THEN Returned(<<"Error retrieving loan details: ", Val(result.error)>>)
    ELSE IF \/ IsNone(Get(result.row, "original_amount", 0))
            \/ IsNone(Get(result.row, "outstanding_balance", 0))
            \/ IsNone(Get(result.row, "monthly_payment", 0))
    THEN Raised("TypeError")
    ELSE Returned(<<"Loan Details for User ", user_id>>)

analyze_loan_optimization_both(user_id, financial_data) ==
    LET loan_data == get_loan_details(user_id) IN
    IF HasError(loan_data) \/ HasError(financial_data)
    THEN <<"Cannot analyze loan: ", "Missing loan or financial data">>
    ELSE IF \/ IsNone(Get(loan_data.row, "outstanding_balance", 0))
            \/ IsNone(Get(loan_data.row, "monthly_payment", 0))
    THEN <<"Error analyzing loan: ", "TypeError">>
    ELSE <<"Loan Optimization Analysis for User ", user_id>>

\* LoanAdvisorAgent.analyze_loan_optimization: the ',.2f' formats raise on
\* a NULL amount and the except clause turns that into a text.
analyze_loan_optimization(user_id, financial_data) ==
    LET loan_data == get_loan_details(user_id) IN
    IF HasError(loan_data)
    THEN <<"Cannot analyze loan: ", Val(loan_data.error)>>
    ELSE IF \/ IsNone(Get(loan_data.row, "outstanding_balance", 0))
            \/ IsNone(Get(loan_data.row, "monthly_payment", 0))
    THEN <<"Error analyzing loan: ", "TypeError">>
    ELSE <<"Loan Optimization Analysis for User ", user_id>>

\* loan_advisor_agent
loan_advisor_agent(user_id) ==
    LET financial_data == get_account_details(user_id) IN
    Returned(analyze_loan_optimization(user_id, financial_data))

\* The result of the refinance tool when it produced no analysis.
NoAnalysis(text) == [analysis |-> FALSE, text |-> text]

RecommendationGe(rate_difference) ==
    IF RGe(rate_difference, Rat(5, 10))
    THEN "Proceed with refinance"
    ELSE "Current terms are competitive"

\* The conditional expression of the Recommendation line.
Recommendation(rate_difference) ==
    IF RGt(rate_difference, Rat(5, 10))
    THEN "Proceed with refinance"
    ELSE "Current terms are competitive"

\* The test of `override if override else fallback`: Python truthiness.
UseOverride(override) == Truthy(override)

MonthlySavingsNoPercent(current_balance, rate_difference) ==
    RDivInt(RMul(current_balance, rate_difference), 12)

\* monthly_savings = current_balance * (rate_difference / 100) / 12
MonthlySavings(current_balance, rate_difference) ==
    RDivInt(RMul(current_balance, RDivInt(rate_difference, 100)), 12)

DefaultProposedRate90(current_rate) == RMul(current_rate, Rat(90, 100))

\* The proposed rate without an override: current_rate * 0.95.
DefaultProposedRate(current_rate) == RMul(current_rate, Rat(95, 100))

\* RefinanceAgent.analyze_refinance_options.  Arithmetic on, or a ',.2f'
\* format of, a NULL column raises TypeError, which the except clause turns
\* into a text.
analyze_refinance_options(user_id, new_rate, new_credit_score, new_income) ==
    LET loan_data == get_loan_details(user_id)
        financial_data == get_account_details(user_id)
    IN
    IF HasError(loan_data) \/ HasError(financial_data)
    THEN NoAnalysis(<<"Cannot analyze refinance: Missing loan or financial data">>)
    ELSE
    LET current_rate == Get(loan_data.row, "interest_rate", 0)
        current_balance == Get(loan_data.row, "outstanding_balance", 0)
        current_payment == Get(loan_data.row, "monthly_payment", 0)
        credit_score ==
            IF UseOverride(new_credit_score)
            THEN new_credit_score
            ELSE Get(financial_data.row, "credit_score", 700)
        income ==
            IF UseOverride(new_income)
            THEN new_income
            ELSE Get(financial_data.row, "annual_income", 50000)
    IN
    IF \/ IsNone(current_rate) \/ IsNone(current_balance)
       \/ IsNone(current_payment) \/ IsNone(income)
    THEN NoAnalysis(<<"Error analyzing refinance: ", "TypeError">>)
    ELSE
    LET proposed_rate ==
            IF UseOverride(new_rate)
            THEN Pct(Val(new_rate))
            ELSE DefaultProposedRate(Pct(Val(current_rate)))
        rate_difference == RSub(Pct(Val(current_rate)), proposed_rate)
        monthly_savings == MonthlySavings(Dollars(Val(current_balance)), rate_difference)
        annual_savings == RMulInt(monthly_savings, 12)
    IN  [analysis |-> TRUE,
         text |-> <<"Refinance Analysis for User ", user_id>>,
         current_rate |-> Pct(Val(current_rate)),
         current_balance |-> Dollars(Val(current_balance)),
         current_payment |-> Val(current_payment),
         proposed_rate |-> proposed_rate,
         credit_score |-> credit_score,
         income |-> Val(income),
         monthly_savings |-> monthly_savings,
         annual_savings |-> annual_savings,
         rate_difference |-> rate_difference,
         recommendation |-> Recommendation(rate_difference)]

\* A user id that may be None, as the queries and the texts see it.
UserIdText(x) == IF IsNone(x) THEN "None" ELSE Val(x)

\* data.get(key) on the parsed JSON object.
DataGet(data, key) == IF key \in DOMAIN data THEN data[key] ELSE None

\* smart_refinance_agent: refinance_input is a JSON object (a text starting
\* with '{') or a bare user id.
smart_refinance_agent(refinance_input) ==
    IF refinance_input.json
    THEN IF ~refinance_input.wellformed
         THEN NoAnalysis(<<"Error in refinance analysis: ", "JSONDecodeError">>)
         ELSE analyze_refinance_options(
                  UserIdText(DataGet(refinance_input.data, "user_id")),
                  DataGet(refinance_input.data, "new_interest_rate"),
                  DataGet(refinance_input.data, "new_credit_score"),
                  DataGet(refinance_input.data, "new_income"))
    ELSE analyze_refinance_options(refinance_input.text, None, None, None)

(* ------------------------------ messages ------------------------------ *)

\* The default recursion_limit of graph.invoke, which ask_question leaves unset.
RecursionLimit == 25

\* timeout=20 of asyncio.wait_for in ask_question, in seconds.
RequestTimeout == 20

Requests == 1..NumRequests

Msg(role, content, tool_calls, tool_call_id, status) ==
    [role |-> role, content |-> content, tool_calls |-> tool_calls,
     tool_call_id |-> tool_call_id, status |-> status]

HumanMessage(content) == Msg("human", content, <<>>, <<>>, "")

\* SystemMessage built by chatbot from the thread_id of the config.
SystemMessage(user_id) ==
    Msg("system", <<"You are a multi-agent banking assistant helping user ID ",
                    user_id, "ROUTING RULES">>, <<>>, <<>>, "")

AIMessage(content, tool_calls) == Msg("ai", content, tool_calls, <<>>, "")

ToolMessage(content, tool_call_id, status) ==
    Msg("tool", content, <<>>, tool_call_id, status)

\* The names of `tools` in graph.py.
ToolNames ==
    {"get_user_financial_info", "get_current_mortgage_rate", "loan_advisor_agent",
     "get_user_account_detail", "get_user_loan_detail", "smart_refinance_agent"}

\* A tool call the model emits: the tool's name, its arguments and a call id.
ToolCall(name, args, id) == [name |-> name, args |-> args, id |-> id]

\* Whether the arguments pass the tool's schema.
ArgsValid(call) ==
    IF call.name = "get_current_mortgage_rate" THEN TRUE
    ELSE IF call.name = "smart_refinance_agent" THEN "refinance_input" \in DOMAIN call.args
    ELSE "user_id" \in DOMAIN call.args

\* The tool function behind a name of the registry, applied to the arguments.
InvokeTool(call) ==
    CASE call.name = "get_user_financial_info" ->
            get_user_financial_info(call.args.user_id)
      [] call.name = "get_current_mortgage_rate" -> get_current_mortgage_rate
      [] call.name = "loan_advisor_agent" -> loan_advisor_agent(call.args.user_id)
      [] call.name = "get_user_account_detail" ->
            get_user_account_detail(call.args.user_id)
      [] call.name = "get_user_loan_detail" -> get_user_loan_detail(call.args.user_id)
      [] call.name = "smart_refinance_agent" ->
            Returned(smart_refinance_agent(call.args.refinance_input).text)

RunOneAbortOnError(call) ==
    IF call.name \notin ToolNames \/ ~ArgsValid(call) \/ InvokeTool(call).raised
    THEN [fatal |-> TRUE, msg |-> ToolMessage(<<"Error">>, call.id, "error")]
    ELSE [fatal |-> FALSE,
          msg |-> ToolMessage(InvokeTool(call).text, call.id, "success")]

\* ToolNode's handling of one tool call (handle_tool_errors left at True):
\* an unknown name, invalid arguments and an exception of the tool each
\* become an error ToolMessage.
RunOne(call) ==
    IF call.name \notin ToolNames
    THEN [fatal |-> FALSE,
          msg |-> ToolMessage(<<"Error: ", call.name, " is not a valid tool">>,
                              call.id, "error")]
    ELSE IF ~ArgsValid(call)
    THEN [fatal |-> FALSE,
          msg |-> ToolMessage(<<"Error: ", "ValidationError",
                                " Please fix your mistakes.">>, call.id, "error")]
    ELSE LET out == InvokeTool(call) IN
         IF out.raised
         THEN [fatal |-> FALSE,
               msg |-> ToolMessage(<<"Error: ">> \o out.text
                                     \o <<" Please fix your mistakes.">>,
                                   call.id, "error")]
         ELSE [fatal |-> FALSE, msg |-> ToolMessage(out.text, call.id, "success")]

tools_condition_end(msgs) == "END"

\* tools_condition: route on the tool calls of the last message.
tools_condition(msgs) ==
    IF Len(msgs[Len(msgs)].tool_calls) > 0 THEN "tools" ELSE "END"

(* ------------------------------- state -------------------------------- *)

VARIABLES
    env,          \* process environment: OPENAI_API_KEY set, AgentOps initialized,
                  \* and whether the model behind the key ever requests tools
    input,        \* per request: the form fields of POST /ask
    pc,           \* per request: where ask_question is
    tracer,       \* per request: what start_session returned
    endSession,   \* per request: the end_state of each agentops.end_trace call
    response,     \* per request: what the caller received
    node,         \* per run: the graph node that runs next, END or error
    step,         \* per run: the supersteps executed
    messages,     \* per run: State["messages"]
    llmInput,     \* per run: the message list of the latest model invocation
    calls,        \* per run: the tool calls the tools node is executing
    inflight,     \* per run: the operations in flight, each with its end time
    toolOut,      \* per run: the outputs of the tool calls that finished
    runError,     \* per run: the exception graph.invoke raised
    elapsed,      \* per run: seconds since wait_for started, at the last step
    varied,       \* per run: freely chosen tool calls the model may still emit
    refiIn,       \* the input of the refinance tool
    refiOut,      \* the results of its invocations, oldest first
    advisorOut    \* the results of the loan advisor's invocations, oldest first

reqVars == <<input, pc, tracer, endSession, response>>

runVars == <<node, step, messages, llmInput, calls, inflight, toolOut, runError,
             elapsed, varied>>

vars == <<db, env, input, pc, tracer, endSession, response, node, step, messages,
          llmInput, calls, inflight, toolOut, runError, elapsed, varied,
          refiIn, refiOut, advisorOut>>

Last(s) == s[Len(s)]

Max(a, b) == IF a > b THEN a ELSE b

(* ------------------------------ monitoring ---------------------------- *)

\* monitoring.start_session: None unless AgentOps is initialized; start_trace
\* may raise, which also gives None.
start_session(r) == IF env.agentops THEN {None, Some(r)} ELSE {None}

end_session_success(r, t, end_state) ==
    IF t # None /\ env.agentops
    THEN Append(endSession[r], "Success")
    ELSE endSession[r]

\* monitoring.end_session behind `if tracer:`; the calls agentops.end_trace gets.
end_session(r, t, end_state) ==
    IF t # None /\ env.agentops
    THEN Append(endSession[r], end_state)
    ELSE endSession[r]

(* ----------------------------- ask_question --------------------------- *)

HTTPException(status_code, detail) == Some([status |-> status_code, body |-> detail])

InitialMessagesOfThread(r, message) ==
    LET same == { q \in Requests : q # r /\ input[q].user_id = input[r].user_id }
    IN  IF same = {}
        THEN <<message>>
        ELSE messages[CHOOSE q \in same : \A q2 \in same : q <= q2] \o <<message>>

\* The state graph.invoke starts from: the request's own message only.
InitialMessages(r, message) == <<message>>

\* ask_question up to the await: start_session, the user_id check, full_query,
\* the API key check, and the start of graph.invoke in a worker thread.
AskStart(r) ==
    /\ pc[r] = "received"
    /\ \E t \in start_session(r) :
        /\ tracer' = [tracer EXCEPT ![r] = t]
        /\ IF input[r].user_id = ""
           THEN /\ response' = [response EXCEPT ![r] =
                                    HTTPException(400, <<"user_id required">>)]
                /\ endSession' = [endSession EXCEPT ![r] = end_session(r, t, "Fail")]
                /\ pc' = [pc EXCEPT ![r] = "done"]
                /\ UNCHANGED runVars
           ELSE IF ~env.api_key
           THEN /\ response' = [response EXCEPT ![r] =
                        HTTPException(500, <<"OPENAI_API_KEY not configured">>)]
                /\ endSession' = [endSession EXCEPT ![r] = end_session(r, t, "Fail")]
                /\ pc' = [pc EXCEPT ![r] = "done"]
                /\ UNCHANGED runVars
           ELSE /\ messages' = [messages EXCEPT ![r] =
                        InitialMessages(r, HumanMessage(
                            FullQuery(input[r].query, input[r].new_interest_rate,
                                      input[r].new_credit_score, input[r].new_income)))]
                /\ node' = [node EXCEPT ![r] = "chatbot"]
                /\ pc' = [pc EXCEPT ![r] = "awaiting"]
                /\ UNCHANGED <<response, endSession, step, llmInput, calls, inflight,
                               toolOut, runError, elapsed, varied>>
    /\ UNCHANGED <<db, env, input, refiIn, refiOut, advisorOut>>

\* What ask_question takes from the result of graph.invoke.
ResponseContent(msgs) == Last(msgs).content

\* ask_question after graph.invoke returned: the response, end_session Success.
AskReturn(r) ==
    /\ pc[r] = "awaiting"
    /\ node[r] = "END"
    /\ response' = [response EXCEPT ![r] =
                        Some([status |-> 200, body |-> ResponseContent(messages[r])])]
    /\ endSession' = [endSession EXCEPT ![r] = end_session(r, tracer[r], "Success")]
    /\ pc' = [pc EXCEPT ![r] = "done"]
    /\ UNCHANGED <<db, env, input, tracer, refiIn, refiOut, advisorOut>>
    /\ UNCHANGED runVars

\* `except Exception as e`: graph.invoke raised; the detail is str(e).
AskError(r) ==
    /\ pc[r] = "awaiting"
    /\ node[r] = "error"
    /\ response' = [response EXCEPT ![r] = HTTPException(500, <<Val(runError[r])>>)]
    /\ endSession' = [endSession EXCEPT ![r] = end_session(r, tracer[r], "Fail")]
    /\ pc' = [pc EXCEPT ![r] = "done"]
    /\ UNCHANGED <<db, env, input, tracer, refiIn, refiOut, advisorOut>>
    /\ UNCHANGED runVars

\* `except asyncio.TimeoutError`: the 20 seconds end while an operation of the
\* run is still going.  The worker thread is not stopped.
Timeout(r) ==
    /\ pc[r] = "awaiting"
    /\ \E o \in inflight[r] : o.endsAt > RequestTimeout
    /\ response' = [response EXCEPT ![r] =
                        HTTPException(504, <<"Request timed out (check DB/LLM).">>)]
    /\ endSession' = [endSession EXCEPT ![r] = end_session(r, tracer[r], "Fail")]
    /\ pc' = [pc EXCEPT ![r] = "done"]
    /\ UNCHANGED <<db, env, input, tracer, refiIn, refiOut, advisorOut>>
    /\ UNCHANGED runVars

(* ------------------------------ the graph ----------------------------- *)

(***************************************************************************)
(* graph.py builds the graph from LangGraph parts, modelled by what they   *)
(* do: add_messages appends, tools_condition routes on the tool calls of   *)
(* the last message, ToolNode runs the tool calls of that message on a     *)
(* thread pool (several may be in flight) and returns their ToolMessages   *)
(* in call order, turning a failure into an error ToolMessage, and         *)
(* graph.invoke raises GraphRecursionError when the graph is not at END    *)
(* after recursion_limit supersteps (25, as ask_question passes none).     *)
(* graph.invoke runs in a worker thread (asyncio.to_thread), which the     *)
(* timeout of wait_for does not stop.                                      *)
(***************************************************************************)

\* Latencies an operation may take, in seconds: negligible, more than half
\* the request timeout (two such operations in a row exceed it together),
\* or more than the timeout.  After the caller stopped waiting time plays
\* no role.
Latencies(r) ==
    IF pc[r] = "awaiting"
    THEN {0, RequestTimeout \div 2 + 1, RequestTimeout + 1}
    ELSE {0}

CanCompleteAnyTime(r, o) == TRUE

\* An operation returns at its end time, which the caller's timeout precedes
\* when it is later than the timeout.
CanComplete(r, o) == o.endsAt <= RequestTimeout \/ pc[r] # "awaiting"

\* The Pregel loop after a superstep: the next node, or GraphRecursionError
\* when the recursion limit is used up and the graph is not at END.
AfterStep(r, steps, next) ==
    IF next # "END" /\ steps >= RecursionLimit
    THEN /\ node' = [node EXCEPT ![r] = "error"]
         /\ runError' = [runError EXCEPT ![r] = Some("GraphRecursionError")]
    ELSE /\ node' = [node EXCEPT ![r] = next]
         /\ UNCHANGED runError

\* What the model may pass as arguments of a tool call.
CallKinds(r) ==
    { [name |-> "get_user_loan_detail", args |-> [user_id |-> input[r].user_id]],
      [name |-> "get_user_financial_info", args |-> [user_id |-> input[r].user_id]],
      [name |-> "transfer_funds", args |-> [user_id |-> input[r].user_id]],
      [name |-> "get_user_loan_detail", args |-> <<>>] }

MarketRateCall == [name |-> "get_current_mortgage_rate", args |-> <<>>]

\* The tool-requesting turns so far all asked for the market rate only.
OnlyMarketRateSoFar(r) ==
    \A p \in 1..Len(messages[r]) :
        Len(messages[r][p].tool_calls) > 0 =>
            messages[r][p].tool_calls[1].name = MarketRateCall.name

RequestedTools(r) == \E p \in 1..Len(messages[r]) : Len(messages[r][p].tool_calls) > 0

\* The lists of tool calls the model may emit in the turn of superstep s:
\* either lists of freely chosen calls, while the run's allowance of those
\* lasts, or, in a run without any, the market-rate call turn after turn;
\* none from a model that only ever answers.
CallLists(r, s) ==
    LET n == IF varied[r] < MaxCalls THEN varied[r] ELSE MaxCalls
        free == IF ~RequestedTools(r) \/ ~OnlyMarketRateSoFar(r)
                THEN UNION { [1..k -> CallKinds(r)] : k \in 1..n }
                ELSE {}
        rest == IF OnlyMarketRateSoFar(r) THEN { <<MarketRateCall>> } ELSE {}
    IN  IF ~env.model_uses_tools THEN {}
        ELSE { [i \in 1..Len(l) |-> ToolCall(l[i].name, l[i].args, <<s, i>>)] :
                 l \in free \cup rest }

\* The allowance of freely chosen calls after the model emitted tcs.
VariedAfter(r, tcs) ==
    IF Len(tcs) > 0 /\ tcs[1].name = MarketRateCall.name
    THEN varied[r]
    ELSE varied[r] - Len(tcs)

ModelInputFromHistory(r) ==
    IF Len(messages[r]) > 1 THEN messages[r] ELSE <<SystemMessage(input[r].user_id)>> \o messages[r]

\* The message list chatbot passes to the model.
ModelInput(r) ==
    <<SystemMessage(input[r].user_id)>> \o messages[r]

\* chatbot, first half: build the system message and invoke the model.
ChatbotInvoke(r) ==
    /\ node[r] = "chatbot"
    /\ inflight[r] = {}
    /\ \E lat \in Latencies(r) :
        inflight' = [inflight EXCEPT ![r] = {[op |-> 0, endsAt |-> elapsed[r] + lat]}]
    /\ llmInput' = [llmInput EXCEPT ![r] = ModelInput(r)]
    /\ UNCHANGED <<db, env, refiIn, refiOut, advisorOut, node, step, messages, calls, toolOut,
                   runError, elapsed, varied>>
    /\ UNCHANGED reqVars

add_messages_overwrite(left, right) == right

\* add_messages: the reducer of State.messages appends the node's messages.
add_messages(left, right) == left \o right

\* chatbot, second half: the model answered; its message is appended and
\* tools_condition routes to the tools node or to END.
ChatbotReturn(r) ==
    /\ node[r] = "chatbot"
    /\ \E o \in inflight[r] :
        /\ o.op = 0
        /\ CanComplete(r, o)
        /\ elapsed' = [elapsed EXCEPT ![r] = Max(elapsed[r], o.endsAt)]
    /\ inflight' = [inflight EXCEPT ![r] = {}]
    /\ step' = [step EXCEPT ![r] = step[r] + 1]
    /\ \E final \in BOOLEAN :
        \E tcs \in IF final THEN {<<>>} ELSE CallLists(r, step[r] + 1) :
          LET reply == AIMessage(IF final
                                 THEN <<"answer of turn ", ToString(step[r] + 1)>>
                                 ELSE <<>>, tcs)
              msgs == add_messages(messages[r], <<reply>>)
          IN  /\ messages' = [messages EXCEPT ![r] = msgs]
              /\ calls' = [calls EXCEPT ![r] = tcs]
              /\ varied' = [varied EXCEPT ![r] = VariedAfter(r, tcs)]
              /\ AfterStep(r, step[r] + 1, tools_condition(msgs))
    /\ toolOut' = [toolOut EXCEPT ![r] = <<>>]
    /\ UNCHANGED <<db, env, refiIn, refiOut, advisorOut, llmInput>>
    /\ UNCHANGED reqVars

\* The model invocation raises (transport error, malformed response): the
\* exception leaves graph.invoke.
ChatbotFail(r) ==
    /\ node[r] = "chatbot"
    /\ \E o \in inflight[r] : o.op = 0 /\ CanComplete(r, o)
    /\ inflight' = [inflight EXCEPT ![r] = {}]
    /\ node' = [node EXCEPT ![r] = "error"]
    /\ runError' = [runError EXCEPT ![r] = Some("APIConnectionError")]
    /\ UNCHANGED <<db, env, refiIn, refiOut, advisorOut, step, messages, llmInput, calls, toolOut,
                   elapsed, varied>>
    /\ UNCHANGED reqVars

StartedInFlightOnly(r) == { o.op : o \in inflight[r] }

\* The tool calls the executor has taken up: in flight or finished.
Started(r) == { o.op : o \in inflight[r] } \cup DOMAIN toolOut[r]

\* ToolNode: the executor starts the function of tool call i.
ToolStart(r, i) ==
    /\ node[r] = "tools"
    /\ i \in 1..Len(calls[r])
    /\ i \notin Started(r)
    /\ \E lat \in Latencies(r) :
        inflight' = [inflight EXCEPT ![r] =
                        @ \cup {[op |-> i, endsAt |-> elapsed[r] + lat]}]
    /\ UNCHANGED <<db, env, refiIn, refiOut, advisorOut, node, step, messages, llmInput, calls,
                   toolOut, runError, elapsed, varied>>
    /\ UNCHANGED reqVars

\* ToolNode: tool call i finished; its output is kept until all have.
ToolFinish(r, i) ==
    /\ node[r] = "tools"
    /\ \E o \in inflight[r] :
        /\ o.op = i
        /\ i > 0
        /\ CanComplete(r, o)
        /\ inflight' = [inflight EXCEPT ![r] = @ \ {o}]
        /\ toolOut' = [toolOut EXCEPT ![r] =
                          [j \in DOMAIN @ \cup {i} |->
                              IF j = i THEN [out |-> RunOne(calls[r][i]),
                                             endsAt |-> o.endsAt]
                              ELSE @[j]]]
    /\ UNCHANGED <<db, env, refiIn, refiOut, advisorOut, node, step, messages, llmInput, calls,
                   runError, elapsed, varied>>
    /\ UNCHANGED reqVars

RECURSIVE MaxEnd(_, _, _)
MaxEnd(outs, n, acc) ==
    IF n = 0 THEN acc ELSE MaxEnd(outs, n - 1, Max(acc, outs[n].endsAt))

ToolOutputsReversed(cs, outs) ==
    [i \in 1..Len(cs) |-> outs[Len(cs) + 1 - i].out.msg]

\* The outputs ToolNode returns: one message per tool call, in call order.
ToolOutputs(cs, outs) == [i \in 1..Len(cs) |-> outs[i].out.msg]

\* ToolNode returns once every tool call finished; its messages are appended
\* and the edge tools -> chatbot is taken.
ToolsReturn(r) ==
    /\ node[r] = "tools"
    /\ inflight[r] = {}
    /\ DOMAIN toolOut[r] = 1..Len(calls[r])
    /\ elapsed' = [elapsed EXCEPT ![r] = MaxEnd(toolOut[r], Len(calls[r]), elapsed[r])]
    /\ IF \E i \in DOMAIN toolOut[r] : toolOut[r][i].out.fatal
       THEN /\ node' = [node EXCEPT ![r] = "error"]
            /\ runError' = [runError EXCEPT ![r] = Some("ToolException")]
            /\ UNCHANGED <<messages, step>>
       ELSE /\ messages' = [messages EXCEPT ![r] =
                    add_messages(messages[r], ToolOutputs(calls[r], toolOut[r]))]
            /\ step' = [step EXCEPT ![r] = step[r] + 1]
            /\ AfterStep(r, step[r] + 1, "chatbot")
    /\ toolOut' = [toolOut EXCEPT ![r] = <<>>]
    /\ calls' = [calls EXCEPT ![r] = <<>>]
    /\ UNCHANGED <<db, env, refiIn, refiOut, advisorOut, llmInput, inflight, varied>>
    /\ UNCHANGED reqVars

(* --------------------------- initial states --------------------------- *)

LoanRow ==
    [interest_rate |-> Some(725), outstanding_balance |-> Some(200000),
     monthly_payment |-> Some(1500), original_amount |-> Some(250000)]

AcctRow == [annual_income |-> Some(85000), credit_score |-> Some(720)]

AcctRowNullIncome == [annual_income |-> None, credit_score |-> Some(720)]

DB(loan, account) ==
    [engine |-> TRUE, up |-> TRUE,
     loans |-> [u \in {"u1"} |-> loan], accounts |-> [u \in {"u1"} |-> account]]

\* The data source as the orchestration runs see it: user u1 with both
\* records, with neither, without an account, or with an account whose
\* annual_income is NULL.
RunDBs ==
    { DB(Some(LoanRow), Some(AcctRow)), DB(None, None),
      DB(Some(LoanRow), None), DB(Some(LoanRow), Some(AcctRowNullIncome)) }

QueryLoan == <<"l", "o", "a", "n">>

RunInputs ==
    { [query |-> QueryLoan, user_id |-> u, new_interest_rate |-> None,
       new_credit_score |-> None, new_income |-> None] : u \in {"", "u1"} }

NoRefi == [json |-> FALSE, text |-> "", wellformed |-> TRUE, data |-> <<>>]

\* No request received yet, no run started.
InitRuns ==
    /\ tracer = [r \in Requests |-> None]
    /\ endSession = [r \in Requests |-> <<>>]
    /\ response = [r \in Requests |-> None]
    /\ node = [r \in Requests |-> "idle"]
    /\ step = [r \in Requests |-> 0]
    /\ messages = [r \in Requests |-> <<>>]
    /\ llmInput = [r \in Requests |-> <<>>]
    /\ calls = [r \in Requests |-> <<>>]
    /\ inflight = [r \in Requests |-> {}]
    /\ toolOut = [r \in Requests |-> <<>>]
    /\ runError = [r \in Requests |-> None]
    /\ elapsed = [r \in Requests |-> 0]

\* One request arrives, with AgentOps initialized; the model may vary its
\* tool calls.
Init ==
    /\ db \in RunDBs
    /\ env \in [api_key : BOOLEAN, agentops : {TRUE}, model_uses_tools : {TRUE}]
    /\ \E i \in RunInputs : input = [r \in Requests |-> i]
    /\ pc = [r \in Requests |-> IF r = 1 THEN "received" ELSE "absent"]
    /\ varied = [r \in Requests |-> MaxVariedCalls]
    /\ refiIn = NoRefi
    /\ refiOut = <<>>
    /\ advisorOut = <<>>
    /\ InitRuns

Next ==
    \E r \in Requests :
        \/ AskStart(r)
        \/ AskReturn(r)
        \/ AskError(r)
        \/ Timeout(r)
        \/ ChatbotInvoke(r)
        \/ ChatbotReturn(r)
        \/ ChatbotFail(r)
        \/ \E i \in 1..MaxCalls : ToolStart(r, i)
        \/ \E i \in 1..MaxCalls : ToolFinish(r, i)
        \/ ToolsReturn(r)

Spec == Init /\ [][Next]_vars

(* ------------------------- orchestration claims ----------------------- *)

\* Positions of the assistant messages that request tools.
AICallPositions(msgs) ==
    { p \in 1..Len(msgs) : msgs[p].role = "ai" /\ Len(msgs[p].tool_calls) > 0 }

\* The k requests of the message at p are answered by the k messages after
\* it, result i carrying the id of request i, and no tool message follows them.
ResultsFollow(msgs, p) ==
    LET k == Len(msgs[p].tool_calls) IN
    /\ Len(msgs) >= p + k
    /\ \A i \in 1..k :
        /\ msgs[p + i].role = "tool"
        /\ msgs[p + i].tool_call_id = msgs[p].tool_calls[i].id
    /\ Len(msgs) > p + k => msgs[p + k + 1].role # "tool"

\* Every tool message answers a request of the closest assistant message before it.
NoStrayResult(msgs) ==
    \A q \in 1..Len(msgs) :
        msgs[q].role = "tool" =>
            \E p \in AICallPositions(msgs) :
                p < q /\ q <= p + Len(msgs[p].tool_calls)

\* C1: for every model turn that requests k >= 1 tool calls, exactly k
\* tool-result messages are appended, result i answering request i, and they
\* are all in the history before the model is invoked again: the history
\* holds an unanswered request only as its last message, and no message list
\* passed to the model holds one.
C1_ToolResultsInRequestOrder ==
    \A r \in Requests :
        /\ \A p \in AICallPositions(messages[r]) :
              p = Len(messages[r]) \/ ResultsFollow(messages[r], p)
        /\ NoStrayResult(messages[r])
        /\ \A p \in AICallPositions(llmInput[r]) : ResultsFollow(llmInput[r], p)
        /\ NoStrayResult(llmInput[r])

\* A model invocation is in flight whose input holds a turn of two requests
\* and their two results.
C1_Witness ==
    \E r \in Requests :
        /\ \E o \in inflight[r] : o.op = 0
        /\ \E p \in AICallPositions(llmInput[r]) :
              Len(llmInput[r][p].tool_calls) >= 2

\* The machine-readable part of a failure response is its HTTP status code.
FailureCategory(resp) ==
    CASE resp.status = 504 -> "RequestTimeout"
      [] resp.status = 500 -> "InternalServerError"
      [] resp.status = 400 -> "BadRequest"
      [] OTHER -> "None"

\* C2: when the model requests a tool on every turn the run is aborted at the
\* turn ceiling, and the failure the caller gets for it has the category
\* OrchestrationExhausted.
C2_ExhaustionIsDistinctCategory ==
    \A r \in Requests :
        (/\ runError[r] = Some("GraphRecursionError")
         /\ response[r] # None
         /\ Val(response[r]).status # 504)
        => FailureCategory(Val(response[r])) = "OrchestrationExhausted"

\* The latency of the run went past the request timeout.
Exceeded(r) ==
    \/ elapsed[r] > RequestTimeout
    \/ \E o \in inflight[r] : o.endsAt > RequestTimeout

RunContents(r) == { messages[r][i].content : i \in 1..Len(messages[r]) }

\* C3: when the latency of a run exceeds the request timeout, what the caller
\* receives is the timeout failure (status 504) and no message of the run;
\* by the time the late operation returns the caller has it.
C3_TimeoutNoAnswer ==
    \A r \in Requests :
        /\ (Exceeded(r) /\ response[r] # None) =>
              /\ Val(response[r]).status = 504
              /\ Val(response[r]).body \notin RunContents(r)
        /\ elapsed[r] > RequestTimeout =>
              /\ pc[r] = "done"
              /\ response[r] # None

\* The caller has the timeout failure and the run went on to a final answer.
C3_Witness ==
    \E r \in Requests :
        /\ elapsed[r] > RequestTimeout
        /\ response[r] # None
        /\ node[r] = "END"
        /\ Len(messages[r]) > 2

IsFinalAnswer(m) == m.role = "ai" /\ Len(m.tool_calls) = 0

\* C4: the run is at END only when the latest model response has no tool
\* calls, a response is returned only then and its text is the content of
\* that last message; after a response with tool calls the run is at the
\* tools node and after the tool results at the model again, never at END
\* (at the recursion limit the run is aborted instead).
C4_StopsOnlyOnFinalAnswer ==
    \A r \in Requests :
        /\ node[r] = "END" => IsFinalAnswer(Last(messages[r]))
        /\ (response[r] # None /\ Val(response[r]).status = 200) =>
              /\ node[r] = "END"
              /\ Val(response[r]).body = Last(messages[r]).content
        /\ (Len(messages[r]) > 0 /\ Last(messages[r]).role = "ai"
              /\ ~IsFinalAnswer(Last(messages[r]))) =>
              \/ node[r] = "tools"
              \/ node[r] = "error" /\ runError[r] = Some("GraphRecursionError")
        /\ (Len(messages[r]) > 0 /\ Last(messages[r]).role = "tool") =>
              \/ node[r] = "chatbot"
              \/ node[r] = "error" /\ runError[r] # None

\* A response was returned after a turn with tool calls.
C4_Witness ==
    \E r \in Requests :
        /\ response[r] # None
        /\ Val(response[r]).status = 200
        /\ AICallPositions(messages[r]) # {}

\* The request at position p + i of the history's tool message p + i.
RequestOf(msgs, q) ==
    LET p == CHOOSE p \in AICallPositions(msgs) :
                 p < q /\ q <= p + Len(msgs[p].tool_calls)
    IN  msgs[p].tool_calls[q - p]

\* The tool call fails: no such tool, invalid arguments, or the tool raises.
CallFails(call) ==
    \/ call.name \notin ToolNames
    \/ ~ArgsValid(call)
    \/ InvokeTool(call).raised

\* C5: a tool failure never aborts the run: the run is aborted only by a
\* failure of the model invocation or by the recursion limit; every failed
\* tool call (unknown tool, invalid arguments, the tool raised) has its
\* tool-result message in the history, marked as an error and describing
\* it; and after the tool results the model is the next node.
C5_ToolFailureIsNotFatal ==
    \A r \in Requests :
        /\ runError[r] \in {None, Some("APIConnectionError"), Some("GraphRecursionError")}
        /\ node[r] = "error" <=> runError[r] # None
        /\ \A q \in 1..Len(messages[r]) :
              (messages[r][q].role = "tool" /\ CallFails(RequestOf(messages[r], q))) =>
                  /\ messages[r][q].status = "error"
                  /\ messages[r][q].content[1] = "Error: "
                  /\ messages[r][q].tool_call_id = RequestOf(messages[r], q).id
        /\ (Len(messages[r]) > 0 /\ Last(messages[r]).role = "tool") =>
              \/ node[r] = "chatbot"
              \/ runError[r] \in {Some("APIConnectionError"), Some("GraphRecursionError")}
        /\ (response[r] # None /\ Val(response[r]).status \notin {200, 400}
              /\ env.api_key) =>
              \/ Val(response[r]).status = 504
              \/ runError[r] \in {Some("APIConnectionError"), Some("GraphRecursionError")}

\* A tool raised, an unknown tool was requested, or arguments were invalid,
\* and the model answered after it.
C5_Witness ==
    \E r \in Requests :
        \E q \in 1..Len(messages[r]) :
            /\ messages[r][q].role = "tool"
            /\ q < Len(messages[r])
            /\ RequestOf(messages[r], q).name = "get_user_financial_info"
            /\ InvokeTool(RequestOf(messages[r], q)).raised
            /\ Last(messages[r]).role = "ai"
            /\ node[r] = "END"

\* The record the tool call asks for is missing.
LoanMissing(call) ==
    /\ call.name = "get_user_loan_detail"
    /\ ArgsValid(call)
    /\ db.engine /\ db.up
    /\ db.loans[call.args.user_id] = None

AccountMissing(call) ==
    /\ call.name = "get_user_financial_info"
    /\ ArgsValid(call)
    /\ db.engine /\ db.up
    /\ db.accounts[call.args.user_id] = None

\* C7: Loan Detail for a user without a loan record gives the text
\* 'Loan not found' as an ordinary (not raised) tool result, Account Info for
\* a user without an account record gives 'User not found' likewise, and the
\* run goes on to the model.
C7_MissingRecordIsTextResult ==
    \A r \in Requests :
        \A q \in 1..Len(messages[r]) :
            messages[r][q].role = "tool" =>
                LET call == RequestOf(messages[r], q) IN
                /\ LoanMissing(call) =>
                      /\ messages[r][q].status = "success"
                      /\ messages[r][q].content =
                            <<"Error retrieving loan details: ", "Loan not found">>
                /\ AccountMissing(call) =>
                      /\ messages[r][q].status = "success"
                      /\ messages[r][q].content =
                            <<"Error retrieving financial info: ", "User not found">>
                /\ (LoanMissing(call) \/ AccountMissing(call)) =>
                      runError[r] \in {None, Some("APIConnectionError"),
                                       Some("GraphRecursionError")}
                /\ ((LoanMissing(call) \/ AccountMissing(call))
                      /\ Last(messages[r]).role = "tool") =>
                      \/ node[r] = "chatbot"
                      \/ runError[r] # None

\* Both lookups missed in one run and the model was invoked after them.
C7_Witness ==
    \E r \in Requests :
        /\ \E q \in 1..Len(messages[r]) :
              messages[r][q].role = "tool" /\ LoanMissing(RequestOf(messages[r], q))
        /\ \E q \in 1..Len(messages[r]) :
              messages[r][q].role = "tool" /\ AccountMissing(RequestOf(messages[r], q))
        /\ Last(messages[r]).role = "ai"

(* --------------------- the query of a request ------------------------- *)

\* Fragments the queries are put together from.
QueryChunks ==
    { <<"R", "e", "f", "i">>, <<"n", "a", "n", "c", "e">>,
      <<"R", "E", "S", "T", "R", "U", "C", "T", "U", "R", "E">>, QueryLoan }

RECURSIVE Flatten(_)
Flatten(ss) == IF ss = <<>> THEN <<>> ELSE Head(ss) \o Flatten(Tail(ss))

Queries ==
    { Flatten(cs) : cs \in UNION { [1..k -> QueryChunks] : k \in 0..MaxChunks } }

\* No override, each one alone, and all three.
QueryOverrides ==
    { <<None, None, None>>, <<Some(500), None, None>>, <<None, Some(780), None>>,
      <<None, None, Some(95000)>>, <<Some(500), Some(780), Some(95000)>> }

QueryInputs ==
    { [query |-> q, user_id |-> "u1", new_interest_rate |-> o[1],
       new_credit_score |-> o[2], new_income |-> o[3]] :
        q \in Queries, o \in QueryOverrides }

\* One request with any query and overrides, without AgentOps; the model
\* asks for the market rate or answers.
InitQuery ==
    /\ db = DB(Some(LoanRow), Some(AcctRow))
    /\ env = [api_key |-> TRUE, agentops |-> FALSE, model_uses_tools |-> TRUE]
    /\ \E i \in QueryInputs : input = [r \in Requests |-> i]
    /\ pc = [r \in Requests |-> IF r = 1 THEN "received" ELSE "absent"]
    /\ varied = [r \in Requests |-> 0]
    /\ refiIn = NoRefi
    /\ refiOut = <<>>
    /\ advisorOut = <<>>
    /\ InitRuns

SpecQuery == InitQuery /\ [][Next]_vars

\* The query has the keyword at position i, letter case aside.
KeywordAt(q, kw, i) ==
    /\ i + Len(kw) - 1 <= Len(q)
    /\ \A j \in 1..Len(kw) : LowerChar(q[i + j - 1]) = LowerChar(kw[j])

Mentions(q, kw) == \E i \in 1..Len(q) : KeywordAt(q, kw, i)

\* C6: for a query that mentions neither 'refinance' nor 'restructure', in
\* any letter case, the query the run starts from is exactly the request's
\* query whatever the override fields are; for a query that mentions one,
\* it is the query followed by the override instruction text, once.
C6_OverridesOnlyWithKeyword ==
    \A r \in Requests :
        Len(messages[r]) > 0 =>
            LET q == input[r].query
                eff == messages[r][1].content
            IN  /\ messages[r][1].role = "human"
                /\ (~Mentions(q, KwRefinance) /\ ~Mentions(q, KwRestructure)) => eff = q
                /\ (Mentions(q, KwRefinance) \/ Mentions(q, KwRestructure)) =>
                      /\ SubSeq(eff, 1, Len(q)) = q
                      /\ SubSeq(eff, Len(q) + 1, Len(eff)) =
                            OverrideText(input[r].new_interest_rate,
                                         input[r].new_credit_score, input[r].new_income)

\* A run of a request that supplies all three overrides and whose query has
\* no keyword, only the two halves of one in the wrong order.
C6_Witness ==
    \E r \in Requests :
        /\ Len(messages[r]) > 1
        /\ input[r].query = <<"n", "a", "n", "c", "e", "R", "e", "f", "i">>
        /\ input[r].new_interest_rate # None
        /\ input[r].new_credit_score # None
        /\ input[r].new_income # None
        /\ messages[r][1].content = input[r].query

(* ----------------------- the refinance analysis ----------------------- *)

\* Invocations of the refinance tool in one behaviour.
MaxInvocations == 2

RefiLoanRows ==
    { [interest_rate |-> Some(cr), outstanding_balance |-> Some(b),
       monthly_payment |-> Some(1500)] : cr \in {725, 1000, 1001}, b \in {0, 200000} }
    \cup { [outstanding_balance |-> Some(200000), monthly_payment |-> Some(1500)],
           [interest_rate |-> Some(725), monthly_payment |-> Some(1500)],
           [interest_rate |-> None, outstanding_balance |-> Some(200000),
            monthly_payment |-> Some(1500)] }

RefiAcctRows ==
    { AcctRow, AcctRowNullIncome, [account_status |-> Some("Active")] }

\* The data source as the refinance tool sees it: a loan and an account
\* record, either of them missing, the database down or not configured.
RefiDBs ==
    { DB(Some(l), Some(AcctRow)) : l \in RefiLoanRows }
    \cup { DB(Some(LoanRow), Some(a)) : a \in RefiAcctRows }
    \cup { DB(None, Some(AcctRow)), DB(Some(LoanRow), None), DB(None, None),
           [DB(Some(LoanRow), Some(AcctRow)) EXCEPT !.up = FALSE],
           [DB(Some(LoanRow), Some(AcctRow)) EXCEPT !.engine = FALSE] }

\* The JSON objects the model may pass: a user id and any of the overrides.
RefiData ==
    { [user_id |-> Some("u1"), new_interest_rate |-> nr, new_credit_score |-> ns,
       new_income |-> ni] :
        nr \in {None, Some(0), Some(500), Some(675), Some(676), Some(800)},
        ns \in {None, Some(0), Some(780)},
        ni \in {None, Some(0), Some(95000)} }

RefiInputs ==
    { [json |-> TRUE, text |-> "", wellformed |-> TRUE, data |-> d] : d \in RefiData }
    \cup { [json |-> TRUE, text |-> "", wellformed |-> TRUE,
            data |-> [user_id |-> Some("u1")]],
           [json |-> TRUE, text |-> "", wellformed |-> FALSE, data |-> <<>>],
           [json |-> FALSE, text |-> "u1", wellformed |-> TRUE, data |-> <<>>],
           [json |-> FALSE, text |-> "u2", wellformed |-> TRUE, data |-> <<>>] }

\* The refinance tool is about to be invoked on some input and data.
InitRefi ==
    /\ db \in RefiDBs
    /\ refiIn \in RefiInputs
    /\ refiOut = <<>>
    /\ advisorOut = <<>>
    /\ env = [api_key |-> TRUE, agentops |-> FALSE, model_uses_tools |-> TRUE]
    /\ input = [r \in Requests |-> CHOOSE i \in RunInputs : i.user_id = "u1"]
    /\ pc = [r \in Requests |-> "absent"]
    /\ varied = [r \in Requests |-> 0]
    /\ InitRuns

\* The user id the input of the refinance tool names.
RefiUser ==
    IF refiIn.json THEN UserIdText(DataGet(refiIn.data, "user_id")) ELSE refiIn.text

InvokeRefinanceApplying ==
    /\ Len(refiOut) < MaxInvocations
    /\ LET out == smart_refinance_agent(refiIn) IN
        /\ refiOut' = Append(refiOut, out)
        /\ db' = IF out.analysis
                 THEN [db EXCEPT !.loans =
                          [u \in DOMAIN @ |->
                              Some([c \in DOMAIN Val(@[u]) \cup {"interest_rate"} |->
                                      IF c = "interest_rate"
                                      THEN Some((100 * out.proposed_rate.n)
                                                    \div out.proposed_rate.d)
                                      ELSE Val(@[u])[c]])]]
                 ELSE db
    /\ UNCHANGED <<env, refiIn, advisorOut>>
    /\ UNCHANGED reqVars
    /\ UNCHANGED runVars

\* The tools node invokes smart_refinance_agent, which reads the data source
\* (SELECT only) and keeps nothing.
InvokeRefinance ==
    /\ Len(refiOut) < MaxInvocations
    /\ LET out == smart_refinance_agent(refiIn) IN
        /\ refiOut' = Append(refiOut, out)
        /\ db' = db
    /\ UNCHANGED <<env, refiIn, advisorOut>>
    /\ UNCHANGED reqVars
    /\ UNCHANGED runVars

\* The tools node invokes loan_advisor_agent for the same user.
InvokeLoanAdvisor ==
    /\ Len(advisorOut) < MaxInvocations
    /\ advisorOut' = Append(advisorOut, loan_advisor_agent(RefiUser))
    /\ UNCHANGED <<db, env, refiIn, refiOut>>
    /\ UNCHANGED reqVars
    /\ UNCHANGED runVars

NextRefi == InvokeRefinance \/ InvokeLoanAdvisor

SpecRefi == InitRefi /\ [][NextRefi]_vars

\* The override the caller supplied for a field, None when it supplied none.
Supplied(key) ==
    IF refiIn.json /\ refiIn.wellformed THEN DataGet(refiIn.data, key) ELSE None

StoredAcct == Val(db.accounts[RefiUser])

REq(a, b) == a.n * b.d = b.n * a.d

\* C8: in every analysis, for each of rate, credit score and income, a
\* supplied override is the value used (the rate in rate_difference =
\* current rate - supplied rate), and without an override the stored value
\* is (for the rate: the proposed rate is derived from the stored rate).
C8_SuppliedOverrideIsUsed ==
    \A k \in 1..Len(refiOut) :
        refiOut[k].analysis =>
            LET out == refiOut[k] IN
            /\ Supplied("new_interest_rate") # None =>
                  /\ REq(out.proposed_rate, Pct(Val(Supplied("new_interest_rate"))))
                  /\ REq(out.rate_difference,
                         RSub(out.current_rate, Pct(Val(Supplied("new_interest_rate")))))
            /\ Supplied("new_credit_score") # None =>
                  out.credit_score = Supplied("new_credit_score")
            /\ Supplied("new_credit_score") = None =>
                  out.credit_score = Get(StoredAcct, "credit_score", 700)
            /\ Supplied("new_income") # None => out.income = Val(Supplied("new_income"))
            /\ Supplied("new_income") = None =>
                  Some(out.income) = Get(StoredAcct, "annual_income", 50000)

\* C9: the recommendation is 'Proceed with refinance' exactly when
\* rate_difference is greater than 0.5, and 'Current terms are competitive'
\* for every rate_difference of 0.5 or less.
C9_FavorableAboveHalfPoint ==
    \A k \in 1..Len(refiOut) :
        refiOut[k].analysis =>
            LET rd == refiOut[k].rate_difference IN
            /\ refiOut[k].recommendation = "Proceed with refinance" <=> 2 * rd.n > rd.d
            /\ 2 * rd.n <= rd.d =>
                  refiOut[k].recommendation = "Current terms are competitive"

\* An analysis with rate_difference exactly 0.5 that is neutral.
C9_Witness ==
    \E k \in 1..Len(refiOut) :
        /\ refiOut[k].analysis
        /\ refiOut[k].rate_difference = Rat(1, 2)
        /\ refiOut[k].recommendation = "Current terms are competitive"

SavingsFormulas(out) ==
    /\ REq(out.rate_difference, RSub(out.current_rate, out.proposed_rate))
    /\ REq(RMulInt(out.monthly_savings, 1200), RMul(out.current_balance, out.rate_difference))
    /\ REq(out.annual_savings, RMulInt(out.monthly_savings, 12))
    /\ REq(RMulInt(out.annual_savings, 100), RMul(out.current_balance, out.rate_difference))

\* C10 as stated: the three formulas hold and monthly and annual savings
\* have the sign of rate_difference for every loan snapshot.
C10_SavingsHaveSignOfDifference ==
    \A k \in 1..Len(refiOut) :
        refiOut[k].analysis =>
            /\ SavingsFormulas(refiOut[k])
            /\ RSign(refiOut[k].monthly_savings) = RSign(refiOut[k].rate_difference)
            /\ RSign(refiOut[k].annual_savings) = RSign(refiOut[k].rate_difference)

\* C10 amended: rate_difference = current_rate - proposed_rate,
\* monthly_savings = current_balance * (rate_difference / 100) / 12,
\* annual_savings = monthly_savings * 12 = current_balance * rate_difference
\* / 100; the savings have the sign of rate_difference when the balance is
\* positive and are zero when the balance is zero.
C10_SavingsFormulas ==
    \A k \in 1..Len(refiOut) :
        refiOut[k].analysis =>
            /\ SavingsFormulas(refiOut[k])
            /\ RSign(refiOut[k].current_balance) > 0 =>
                  /\ RSign(refiOut[k].monthly_savings) = RSign(refiOut[k].rate_difference)
                  /\ RSign(refiOut[k].annual_savings) = RSign(refiOut[k].rate_difference)
            /\ RSign(refiOut[k].current_balance) = 0 =>
                  /\ RSign(refiOut[k].monthly_savings) = 0
                  /\ RSign(refiOut[k].annual_savings) = 0

\* An analysis of a positive balance with a negative rate difference, and so
\* negative savings.
C10_Witness ==
    \E k \in 1..Len(refiOut) :
        /\ refiOut[k].analysis
        /\ RSign(refiOut[k].current_balance) > 0
        /\ RSign(refiOut[k].rate_difference) < 0
        /\ RSign(refiOut[k].monthly_savings) < 0


(* ------------------- failures, timing and the history ----------------- *)

\* C11: every fatal failure (adapter error, turn ceiling, timeout) reaches
\* the caller as a generic failure message, and the text of the internal
\* exception is never part of what the caller receives.
C11_FailureHidesExceptionText ==
    \A r \in Requests :
        (response[r] # None /\ runError[r] # None) =>
            \A i \in 1..Len(Val(response[r]).body) :
                Val(response[r]).body[i] # Val(runError[r])

ToolOps(r) == { o \in inflight[r] : o.op > 0 }

TimedOut(r) == response[r] # None /\ Val(response[r]).status = 504

\* C14: after the timeout failure is reported the run starts no further
\* model invocation and no further tool execution.
C14_NoWorkAfterTimeout ==
    [][\A r \in Requests : TimedOut(r) => inflight'[r] \subseteq inflight[r]]_vars

IsPrefix(s, t) == Len(s) <= Len(t) /\ SubSeq(t, 1, Len(s)) = s

\* C15: every step leaves the messages of the history unchanged and in
\* place and adds only at the end; the history changes only when a run
\* starts or a superstep ends, never while the tools node executes.
C15_HistoryOnlyGrows ==
    [][\A r \in Requests :
          /\ IsPrefix(messages[r], messages'[r])
          /\ messages'[r] # messages[r] =>
                \/ messages[r] = <<>>
                \/ step'[r] = step[r] + 1 /\ inflight'[r] = {}
          /\ (node[r] = "tools" /\ node'[r] = "tools") =>
                messages'[r] = messages[r]]_vars

\* The history holds a turn of two tool calls, their results and the
\* model's answer after them.
C15_Witness ==
    \E r \in Requests :
        /\ Len(messages[r]) >= 5
        /\ \E p \in AICallPositions(messages[r]) : Len(messages[r][p].tool_calls) = 2
        /\ IsFinalAnswer(Last(messages[r]))

\* C16: the input of every model invocation is one system message, built
\* from the user id of the run's request, followed by the whole history as
\* it was at the invocation, in order; no system message is in the history.
C16_SystemMessageFirstOnly ==
    \A r \in Requests :
        /\ \A p \in 1..Len(messages[r]) : messages[r][p].role # "system"
        /\ Len(llmInput[r]) > 0 =>
              /\ llmInput[r][1] = SystemMessage(input[r].user_id)
              /\ \A p \in 2..Len(llmInput[r]) : llmInput[r][p].role # "system"
              /\ IsPrefix(Tail(llmInput[r]), messages[r])
              /\ (\E o \in inflight[r] : o.op = 0) => Tail(llmInput[r]) = messages[r]

\* A model invocation after a turn with tool calls is in flight.
C16_Witness ==
    \E r \in Requests :
        /\ \E o \in inflight[r] : o.op = 0
        /\ Len(llmInput[r]) >= 4
        /\ AICallPositions(llmInput[r]) # {}

QueryRate == <<"r", "a", "t", "e">>

MultiInputs ==
    { [query |-> q, user_id |-> u, new_interest_rate |-> None,
       new_credit_score |-> None, new_income |-> None] :
        q \in {QueryLoan, QueryRate}, u \in {"u1", "u2"} }

\* Every request has arrived, with the same or different user ids; the
\* model only answers.
InitMulti ==
    /\ db = DB(Some(LoanRow), Some(AcctRow))
    /\ env = [api_key |-> TRUE, agentops |-> FALSE, model_uses_tools |-> FALSE]
    /\ input \in [Requests -> MultiInputs]
    /\ pc = [r \in Requests |-> "received"]
    /\ varied = [r \in Requests |-> 0]
    /\ refiIn = NoRefi
    /\ refiOut = <<>>
    /\ advisorOut = <<>>
    /\ InitRuns

NextMulti ==
    \E r \in Requests :
        \/ AskStart(r)
        \/ AskReturn(r)
        \/ AskError(r)
        \/ Timeout(r)
        \/ ChatbotInvoke(r)
        \/ ChatbotReturn(r)
        \/ ChatbotFail(r)

SpecMulti == InitMulti /\ [][NextMulti]_vars

\* C17: in any interleaving of requests with the same or different user
\* ids, the history of each run starts with that request's own user
\* message, holds no other user message and nothing but what the supersteps
\* of that run appended, and its model sees the user id of its own request.
C17_RunsShareNoHistory ==
    \A r \in Requests :
        /\ Len(messages[r]) > 0 =>
              /\ messages[r][1] =
                    HumanMessage(FullQuery(input[r].query, input[r].new_interest_rate,
                                           input[r].new_credit_score, input[r].new_income))
              /\ \A p \in 2..Len(messages[r]) : messages[r][p].role = "ai"
              /\ Len(messages[r]) = 1 + step[r]
        /\ Len(llmInput[r]) > 0 =>
              /\ llmInput[r][1] = SystemMessage(input[r].user_id)
              /\ Tail(llmInput[r]) = <<messages[r][1]>>

\* Two requests of the same user with different queries have both been
\* answered.
C17_Witness ==
    \E r1, r2 \in Requests :
        /\ r1 # r2
        /\ input[r1].user_id = input[r2].user_id
        /\ input[r1].query # input[r2].query
        /\ Len(messages[r1]) = 2 /\ node[r1] = "END"
        /\ Len(messages[r2]) = 2 /\ node[r2] = "END"


(* ------------------ repeated and failing analyses --------------------- *)

StoredRate == Pct(Val(Get(Val(db.loans[RefiUser]), "interest_rate", 0)))

\* C19: in every analysis without a rate override the proposed rate is 95%
\* of the stored current rate and rate_difference 5% of it, so that the
\* recommendation is 'Proceed with refinance' exactly when the stored rate
\* is greater than 10 and 'Current terms are competitive' for every stored
\* rate of 10 or less.
C19_DefaultRateFavorableAboveTen ==
    \A k \in 1..Len(refiOut) :
        (refiOut[k].analysis /\ Supplied("new_interest_rate") = None) =>
            LET out == refiOut[k] IN
            /\ REq(RMulInt(out.proposed_rate, 100), RMulInt(StoredRate, 95))
            /\ REq(RMulInt(out.rate_difference, 100), RMulInt(StoredRate, 5))
            /\ out.recommendation = "Proceed with refinance" <=>
                  RGt(StoredRate, Rat(10, 1))
            /\ ~RGt(StoredRate, Rat(10, 1)) =>
                  out.recommendation = "Current terms are competitive"

\* An analysis without a rate override of a loan at 10.01 percent, which is
\* favorable.
C19_Witness ==
    \E k \in 1..Len(refiOut) :
        /\ refiOut[k].analysis
        /\ Supplied("new_interest_rate") = None
        /\ StoredRate = Rat(1001, 100)
        /\ refiOut[k].recommendation = "Proceed with refinance"

\* The lookup of the user's record returns an error: the database is not
\* configured or down, or there is no record.
LookupFails(table) ==
    \/ ~db.engine
    \/ ~db.up
    \/ RefiUser \notin DOMAIN table
    \/ table[RefiUser] = None

\* The refinance tool got as far as the lookups.
LookupsDone == ~refiIn.json \/ refiIn.wellformed

CannotAnalyzeRefinance ==
    NoAnalysis(<<"Cannot analyze refinance: Missing loan or financial data">>)

\* C20: the refinance analysis has savings and a recommendation only when
\* the loan and the account lookup both succeeded, and is the text 'Cannot
\* analyze refinance', without any number, exactly when one of them returned
\* an error; the loan advisor returns, never raises, and its text is 'Cannot
\* analyze loan' exactly when the loan lookup returned an error, whatever
\* the account lookup returned.
C20_NoAnalysisWithoutRecords ==
    /\ \A k \in 1..Len(refiOut) :
          /\ refiOut[k].analysis =>
                ~LookupFails(db.loans) /\ ~LookupFails(db.accounts)
          /\ (LookupsDone /\ (LookupFails(db.loans) \/ LookupFails(db.accounts))) =>
                refiOut[k] = CannotAnalyzeRefinance
          /\ refiOut[k] = CannotAnalyzeRefinance =>
                LookupFails(db.loans) \/ LookupFails(db.accounts)
    /\ \A k \in 1..Len(advisorOut) :
          /\ ~advisorOut[k].raised
          /\ advisorOut[k].text[1] = "Cannot analyze loan: " <=> LookupFails(db.loans)

\* The user has a loan but no account: the refinance tool cannot analyze,
\* the loan advisor can.
C20_Witness ==
    /\ ~LookupFails(db.loans)
    /\ LookupFails(db.accounts)
    /\ Len(refiOut) > 0
    /\ refiOut[1] = CannotAnalyzeRefinance
    /\ Len(advisorOut) > 0
    /\ advisorOut[1].text[1] = "Loan Optimization Analysis for User "

====
